---- MODULE Spec2Model ----
(***************************************************************************)
(* Model of hearts_gym/envs/reward_function.py: RewardFunction.            *)
(*                                                                         *)
(* compute_reward is a pure function of the game's previous-step fields    *)
(* (prev_played_cards, prev_was_illegals, the prev_trick fields), of the   *)
(* game's configuration (max_penalty, max_num_cards_on_hand) and of its    *)
(* three arguments.  The game object is a collaborator that is not part   *)
(* of the source file; its fields are the state of the model, its writes   *)
(* are unconstrained overwrites of single fields, and compute_reward is    *)
(* the one operation translated from the source.                           *)
(*                                                                         *)
(* Numbers are exact rationals <<numerator, denominator>>; the rounding    *)
(* of IEEE doubles is not modelled (it is below 1e-15 for every value      *)
(* that occurs here).                                                      *)
(***************************************************************************)
EXTENDS Integers, FiniteSets

VARIABLES
    max_penalty,                \* self.game.max_penalty
    max_num_cards_on_hand,      \* self.game.max_num_cards_on_hand
    prev_played_cards,          \* self.game.prev_played_cards
    prev_was_illegals,          \* self.game.prev_was_illegals
    shot_the_moon,              \* what self.game.has_shot_the_moon(i) answers
    prev_trick_penalty,         \* self.game.prev_trick_penalty
    prev_trick_winner_index,    \* self.game.prev_trick_winner_index
    prev_leading_player_index,  \* self.game.prev_leading_player_index
    reward                      \* the last call of compute_reward and what it returned

vars == <<max_penalty, max_num_cards_on_hand, prev_played_cards, prev_was_illegals,
          shot_the_moon, prev_trick_penalty, prev_trick_winner_index,
          prev_leading_player_index, reward>>

game == <<max_penalty, max_num_cards_on_hand, prev_played_cards, prev_was_illegals,
          shot_the_moon, prev_trick_penalty, prev_trick_winner_index,
          prev_leading_player_index>>

----------------------------------------------------------------------------
(* Bounds of the model *)

\* max_num_cards_on_hand is drawn from 1 .. MaxCardsOnHand
MaxCardsOnHand == 4


----------------------------------------------------------------------------
(* Exact rational arithmetic *)

Abs(n) == IF n < 0 THEN -n ELSE n

RECURSIVE GCD(_, _)
GCD(a, b) == IF b = 0 THEN a ELSE GCD(b, a % b)

\* the fraction n/d (d # 0) in lowest terms with a positive denominator
Frac(n, d) ==
    LET g == GCD(Abs(n), Abs(d))
        s == IF d < 0 THEN -1 ELSE 1
    IN  <<(s * n) \div g, (s * d) \div g>>

Num(n) == <<n, 1>>
RAdd(x, y) == Frac(x[1] * y[2] + y[1] * x[2], x[2] * y[2])
RNeg(x) == <<-x[1], x[2]>>
RSub(x, y) == RAdd(x, RNeg(y))
RMul(x, y) == Frac(x[1] * y[1], x[2] * y[2])
RDiv(x, y) == Frac(x[1] * y[2], x[2] * y[1])
RLt(x, y) == x[1] * y[2] < y[1] * x[2]
RLe(x, y) == x[1] * y[2] <= y[1] * x[2]
RMax(x, y) == IF RLt(x, y) THEN y ELSE x
RAbs(x) == <<Abs(x[1]), x[2]>>

----------------------------------------------------------------------------
(* The collaborators: players, cards, penalties *)

\* two players: the target of a call and one other
Players == {0, 1}

SUIT_CLUB == "club"
SUIT_DIAMOND == "diamond"
SUIT_HEART == "heart"
SUIT_SPADE == "spade"
Suits == {SUIT_CLUB, SUIT_DIAMOND, SUIT_HEART, SUIT_SPADE}

MinRank == 2
MaxRank == 14
Ranks == MinRank .. MaxRank
RANK_QUEEN == 12

Card(suit, rank) == [suit |-> suit, rank |-> rank]
Deck == {Card(s, r) : s \in Suits, r \in Ranks}

\* Python's None, for a card, a player index and a penalty
NoCard == [suit |-> "None", rank |-> 0]
NoPlayer == -1
NoPenalty == -1

HeartPenalty == 1
QueenPenalty == 13

\* self.game.get_penalty(card)
get_penalty(card) ==
    IF card.suit = SUIT_SPADE /\ card.rank = RANK_QUEEN THEN QueenPenalty
    ELSE IF card.suit = SUIT_HEART THEN HeartPenalty
    ELSE 0

\* self.game.has_shot_the_moon(player_index)
has_shot_the_moon(player_index) == shot_the_moon[player_index]


----------------------------------------------------------------------------
(* RewardFunction.compute_reward *)

\* what a call returns when it falls off the end of the function (None)
NoValue == <<0, 0>>

\* line 54 without the factor max_num_cards_on_hand
illegal_move_reward_without_hand_size == Num(-max_penalty)

\* line 54
illegal_move_reward == Num(-max_penalty * max_num_cards_on_hand)

\* lines 64-70 with 0.5 for the 0.25 of line 70
card_value_half(card) ==
    IF card.suit = SUIT_SPADE /\ card.rank = RANK_QUEEN
    THEN Num(get_penalty(card))
    ELSE IF card.suit = SUIT_HEART
    THEN RMul(RMul(RMul(Num(get_penalty(card)), <<1, 2>>),
                   RMul(RDiv(Num(card.rank), Num(13)), RDiv(Num(card.rank), Num(13)))),
              Num(13))
    ELSE RMul(RMul(<<1, 2>>,
                   RMul(RDiv(Num(card.rank), Num(13)), RDiv(Num(card.rank), Num(13)))),
              Num(13))

\* lines 64-70 with 13 / rank for rank / 13
card_value_inverse_rank(card) ==
    IF card.suit = SUIT_SPADE /\ card.rank = RANK_QUEEN
    THEN Num(get_penalty(card))
    ELSE IF card.suit = SUIT_HEART
    THEN RMul(RMul(RMul(Num(get_penalty(card)), <<1, 2>>),
                   RMul(RDiv(Num(13), Num(card.rank)), RDiv(Num(13), Num(card.rank)))),
              Num(13))
    ELSE RMul(RMul(<<1, 4>>,
                   RMul(RDiv(Num(13), Num(card.rank)), RDiv(Num(13), Num(card.rank)))),
              Num(13))

\* lines 64-70
card_value(card) ==
    IF card.suit = SUIT_SPADE /\ card.rank = RANK_QUEEN
    THEN Num(get_penalty(card))
    ELSE IF card.suit = SUIT_HEART
    THEN RMul(RMul(RMul(Num(get_penalty(card)), <<1, 2>>),
                   RMul(RDiv(Num(card.rank), Num(13)), RDiv(Num(card.rank), Num(13)))),
              Num(13))
    ELSE RMul(RMul(<<1, 4>>,
                   RMul(RDiv(Num(card.rank), Num(13)), RDiv(Num(card.rank), Num(13)))),
              Num(13))

\* line 74
shoot_the_moon_reward == Num(max_penalty * max_num_cards_on_hand)

\* lines 77-84 with line 82 not doubling for the lead
trick_reward_lead_not_doubled(card, player_index) ==
    CASE prev_trick_winner_index = player_index
            /\ prev_leading_player_index = player_index
         -> RSub(Num(-prev_trick_penalty),
                 RMul(RMax(Num(get_penalty(card)), <<1, 2>>), Num(2)))
      [] prev_trick_winner_index = player_index
            /\ prev_leading_player_index # player_index
         -> RSub(Num(-prev_trick_penalty), RMax(Num(get_penalty(card)), <<1, 2>>))
      [] prev_trick_winner_index # player_index
            /\ prev_leading_player_index = player_index
         -> RAdd(Num(prev_trick_penalty), RMax(Num(get_penalty(card)), <<1, 2>>))
      [] prev_trick_winner_index # player_index
            /\ prev_leading_player_index # player_index
         -> RAdd(Num(prev_trick_penalty), RMax(Num(get_penalty(card)), <<1, 2>>))
      [] OTHER -> NoValue

\* lines 77-84 with the lead doubling the whole sum on line 78
trick_reward_lead_doubles_all(card, player_index) ==
    CASE prev_trick_winner_index = player_index
            /\ prev_leading_player_index = player_index
         -> RMul(RSub(Num(-prev_trick_penalty), RMax(Num(get_penalty(card)), <<1, 2>>)),
                 Num(2))
      [] prev_trick_winner_index = player_index
            /\ prev_leading_player_index # player_index
         -> RSub(Num(-prev_trick_penalty), RMax(Num(get_penalty(card)), <<1, 2>>))
      [] prev_trick_winner_index # player_index
            /\ prev_leading_player_index = player_index
         -> RAdd(Num(prev_trick_penalty),
                 RMul(RMax(Num(get_penalty(card)), <<1, 2>>), Num(2)))
      [] prev_trick_winner_index # player_index
            /\ prev_leading_player_index # player_index
         -> RAdd(Num(prev_trick_penalty), RMax(Num(get_penalty(card)), <<1, 2>>))
      [] OTHER -> NoValue

\* lines 77-84: the if/elif chain has no else, so a call none of the four
\* conditions matches returns None
trick_reward(card, player_index) ==
    CASE prev_trick_winner_index = player_index
            /\ prev_leading_player_index = player_index
         -> RSub(Num(-prev_trick_penalty),
                 RMul(RMax(Num(get_penalty(card)), <<1, 2>>), Num(2)))
      [] prev_trick_winner_index = player_index
            /\ prev_leading_player_index # player_index
         -> RSub(Num(-prev_trick_penalty), RMax(Num(get_penalty(card)), <<1, 2>>))
      [] prev_trick_winner_index # player_index
            /\ prev_leading_player_index = player_index
         -> RAdd(Num(prev_trick_penalty),
                 RMul(RMax(Num(get_penalty(card)), <<1, 2>>), Num(2)))
      [] prev_trick_winner_index # player_index
            /\ prev_leading_player_index # player_index
         -> RAdd(Num(prev_trick_penalty), RMax(Num(get_penalty(card)), <<1, 2>>))
      [] OTHER -> NoValue

\* line 86 without the division
no_trick_reward_undivided(value) == value

\* line 86
no_trick_reward(value) == RDiv(value, Num(13))

\* lines 53-86 with the trick branch (line 76) tested before the
\* shoot-the-moon branch (line 73)
compute_reward_on_trick_before_moon(played, illegals, player_index, prev_active_player_index, trick_is_over) ==
    IF illegals[player_index]
    THEN illegal_move_reward
    ELSE LET card == played[player_index] IN
         IF card = NoCard
         THEN Num(0)
         ELSE IF prev_trick_penalty # NoPenalty
         THEN trick_reward(card, player_index)
         ELSE IF trick_is_over /\ has_shot_the_moon(player_index)
         THEN shoot_the_moon_reward
         ELSE no_trick_reward(card_value(card))

\* lines 53-86 with the shoot-the-moon branch (line 73) tested before the
\* card is looked at (line 58)
compute_reward_on_moon_before_card(played, illegals, player_index, prev_active_player_index, trick_is_over) ==
    IF illegals[player_index]
    THEN illegal_move_reward
    ELSE LET card == played[player_index] IN
         IF trick_is_over /\ has_shot_the_moon(player_index)
         THEN shoot_the_moon_reward
         ELSE IF card = NoCard
         THEN Num(0)
         ELSE IF prev_trick_penalty # NoPenalty
         THEN trick_reward(card, player_index)
         ELSE no_trick_reward(card_value(card))

\* lines 53-86 with the card of the acting player read on line 56
compute_reward_on_acting_player(played, illegals, player_index, prev_active_player_index, trick_is_over) ==
    IF illegals[player_index]
    THEN illegal_move_reward
    ELSE LET card == played[prev_active_player_index] IN
         IF card = NoCard
         THEN Num(0)
         ELSE IF trick_is_over /\ has_shot_the_moon(player_index)
         THEN shoot_the_moon_reward
         ELSE IF prev_trick_penalty # NoPenalty
         THEN trick_reward(card, player_index)
         ELSE no_trick_reward(card_value(card))

\* lines 53-86 with line 76 testing prev_trick_winner_index for None
compute_reward_on_winner_guard(played, illegals, player_index, prev_active_player_index, trick_is_over) ==
    IF illegals[player_index]
    THEN illegal_move_reward
    ELSE LET card == played[player_index] IN
         IF card = NoCard
         THEN Num(0)
         ELSE IF trick_is_over /\ has_shot_the_moon(player_index)
         THEN shoot_the_moon_reward
         ELSE IF prev_trick_winner_index # NoPlayer
         THEN trick_reward(card, player_index)
         ELSE no_trick_reward(card_value(card))

\* lines 53-86, reading the per-player fields from played and illegals
compute_reward_on(played, illegals, player_index, prev_active_player_index, trick_is_over) ==
    IF illegals[player_index]
    THEN illegal_move_reward
    ELSE LET card == played[player_index] IN
         IF card = NoCard
         THEN Num(0)
         ELSE IF trick_is_over /\ has_shot_the_moon(player_index)
         THEN shoot_the_moon_reward
         ELSE IF prev_trick_penalty # NoPenalty
         THEN trick_reward(card, player_index)
         ELSE no_trick_reward(card_value(card))

\* lines 26-86
compute_reward(player_index, prev_active_player_index, trick_is_over) ==
    compute_reward_on(prev_played_cards, prev_was_illegals, player_index,
                      prev_active_player_index, trick_is_over)

----------------------------------------------------------------------------
(* The state machine *)

\* the cards the game writes to prev_played_cards: one of each kind the
\* reward function tells apart, the heart being a queen too
SampleCards ==
    {Card(SUIT_SPADE, RANK_QUEEN), Card(SUIT_HEART, RANK_QUEEN), Card(SUIT_CLUB, 7)}

\* the penalties the game writes to prev_trick_penalty
SamplePenalties == {0, 5, QueenPenalty, 13 * HeartPenalty + QueenPenalty}

MaxPenalties == {QueenPenalty, 13 * HeartPenalty + QueenPenalty}

\* no returned reward is waiting to be handed to the agent
NoCall == [player_index |-> NoPlayer, trick_is_over |-> FALSE, value |-> NoValue]

\* a game right after its reset: nobody has played, no trick has closed
Init ==
    /\ max_penalty \in MaxPenalties
    /\ max_num_cards_on_hand \in 1 .. MaxCardsOnHand
    /\ prev_played_cards = [p \in Players |-> NoCard]
    /\ prev_was_illegals = [p \in Players |-> FALSE]
    /\ shot_the_moon = [p \in Players |-> FALSE]
    /\ prev_trick_penalty = NoPenalty
    /\ prev_trick_winner_index = NoPlayer
    /\ prev_leading_player_index = NoPlayer
    /\ reward = NoCall

\* Between two calls the game overwrites one field of the snapshot.  The
\* evaluator does not validate the snapshot, so every combination of fields is
\* an input.
SetPrevPlayedCard ==
    \E p \in Players, c \in SampleCards \cup {NoCard} :
        /\ reward = NoCall
        /\ prev_played_cards' = [prev_played_cards EXCEPT ![p] = c]
        /\ UNCHANGED <<reward, max_penalty, max_num_cards_on_hand, prev_was_illegals,
                       shot_the_moon, prev_trick_penalty, prev_trick_winner_index,
                       prev_leading_player_index>>

SetPrevWasIllegal ==
    \E p \in Players, b \in BOOLEAN :
        /\ reward = NoCall
        /\ prev_was_illegals' = [prev_was_illegals EXCEPT ![p] = b]
        /\ UNCHANGED <<reward, max_penalty, max_num_cards_on_hand, prev_played_cards,
                       shot_the_moon, prev_trick_penalty, prev_trick_winner_index,
                       prev_leading_player_index>>

SetShotTheMoon ==
    \E p \in Players, b \in BOOLEAN :
        /\ reward = NoCall
        /\ shot_the_moon' = [shot_the_moon EXCEPT ![p] = b]
        /\ UNCHANGED <<reward, max_penalty, max_num_cards_on_hand, prev_played_cards,
                       prev_was_illegals, prev_trick_penalty, prev_trick_winner_index,
                       prev_leading_player_index>>

SetPrevTrickPenalty ==
    \E t \in SamplePenalties \cup {NoPenalty} :
        /\ reward = NoCall
        /\ prev_trick_penalty' = t
        /\ UNCHANGED <<reward, max_penalty, max_num_cards_on_hand, prev_played_cards,
                       prev_was_illegals, shot_the_moon, prev_trick_winner_index,
                       prev_leading_player_index>>

SetPrevTrickWinnerIndex ==
    \E w \in Players \cup {NoPlayer} :
        /\ reward = NoCall
        /\ prev_trick_winner_index' = w
        /\ UNCHANGED <<reward, max_penalty, max_num_cards_on_hand, prev_played_cards,
                       prev_was_illegals, shot_the_moon, prev_trick_penalty,
                       prev_leading_player_index>>

SetPrevLeadingPlayerIndex ==
    \E l \in Players \cup {NoPlayer} :
        /\ reward = NoCall
        /\ prev_leading_player_index' = l
        /\ UNCHANGED <<reward, max_penalty, max_num_cards_on_hand, prev_played_cards,
                       prev_was_illegals, shot_the_moon, prev_trick_penalty,
                       prev_trick_winner_index>>

\* RewardFunction.__call__: the environment asks for one player's reward
Call ==
    \E player_index \in Players, prev_active_player_index \in Players,
       trick_is_over \in BOOLEAN :
        /\ reward = NoCall
        /\ reward' =
              [player_index |-> player_index,
               trick_is_over |-> trick_is_over,
               value |-> compute_reward(player_index, prev_active_player_index,
                                        trick_is_over)]
        /\ UNCHANGED game

\* the environment hands the returned reward to the agent and steps on
Deliver ==
    /\ reward # NoCall
    /\ reward' = NoCall
    /\ UNCHANGED game

Next ==
    \/ SetPrevPlayedCard
    \/ SetPrevWasIllegal
    \/ SetShotTheMoon
    \/ SetPrevTrickPenalty
    \/ SetPrevTrickWinnerIndex
    \/ SetPrevLeadingPlayerIndex
    \/ Call
    \/ Deliver

Spec == Init /\ [][Next]_vars

\* The first trick of a game: each player plays one card of the whole deck,
\* nobody has moved illegally and no trick has closed.
PlayCard ==
    \E p \in Players, c \in Deck :
        /\ reward = NoCall
        /\ prev_played_cards[p] = NoCard
        /\ \A q \in Players : prev_played_cards[q] # c
        /\ prev_played_cards' = [prev_played_cards EXCEPT ![p] = c]
        /\ UNCHANGED <<reward, max_penalty, max_num_cards_on_hand, prev_was_illegals,
                       shot_the_moon, prev_trick_penalty, prev_trick_winner_index,
                       prev_leading_player_index>>

NextDeck ==
    \/ PlayCard
    \/ Call
    \/ Deliver

SpecDeck == Init /\ [][NextDeck]_vars

----------------------------------------------------------------------------
(* What the claims are stated with *)

\* a call has returned and the game has not changed since
Called == reward.player_index # NoPlayer

\* the target player of that call, and the card the game holds for them
Target == reward.player_index
TargetCard == prev_played_cards[Target]

IsPenaltyCard(c) == c.suit = "spade" /\ c.rank = 12
IsHeart(c) == c.suit = "heart"

\* the shoot-the-moon branch fires for the call
MoonFires == reward.trick_is_over /\ shot_the_moon[Target]

\* the call reaches the card/trick path (branches 4 to 6)
DefaultPath == Called /\ ~prev_was_illegals[Target] /\ TargetCard # NoCard /\ ~MoonFires

\* the penalty of a card, as the rules give it: 13 for the spade queen, 1 a heart
Penalty(c) == IF IsPenaltyCard(c) THEN 13 ELSE IF IsHeart(c) THEN 1 ELSE 0

\* max(c, 0.5) in halves
FloorHalves(c) == IF 2 * c < 1 THEN 1 ELSE 2 * c

\* cardValue / 13 as one fraction
ExpectedNoTrick(c) ==
    IF IsPenaltyCard(c) THEN Frac(Penalty(c), 13)
    ELSE IF IsHeart(c) THEN Frac(Penalty(c) * c.rank * c.rank, 2 * 13 * 13)
    ELSE Frac(c.rank * c.rank, 4 * 13 * 13)

\* a call that raised instead of returning
Raised == <<1, 0>>

RECURSIVE Pow10(_)
Pow10(e) == IF e = 0 THEN 1 ELSE 10 * Pow10(e - 1)

RECURSIVE SigExp(_, _)
SigExp(x, e) == IF x[1] * Pow10(e) >= 100 * x[2] THEN e ELSE SigExp(x, e + 1)

\* a positive number below 1000 to three significant digits: <<m, e>> is m / 10^e
Round3(x) ==
    LET e == SigExp(x, 0)
    IN  <<(2 * x[1] * Pow10(e) + x[2]) \div (2 * x[2]), e>>

----------------------------------------------------------------------------
(* The claims *)

\* C1: a call for a target whose previous move was illegal returns exactly
\* -max_penalty * max_num_cards_on_hand, whatever the other arguments, the
\* target's card (present or absent), has_shot_the_moon and the trick fields are.
C1_IllegalMovePenalty ==
    (Called /\ prev_was_illegals[Target])
        => reward.value = <<-(max_penalty * max_num_cards_on_hand), 1>>

\* C1 witness: an illegal target with no card, who has shot the moon, asked
\* as a trick closes after a trick the target won
C1_Witness ==
    /\ Called
    /\ prev_was_illegals[Target]
    /\ TargetCard = NoCard
    /\ MoonFires
    /\ prev_trick_penalty = 5
    /\ prev_trick_winner_index = Target
    /\ max_num_cards_on_hand > 1

\* C2 as stated: trick closed, target has shot the moon and was not illegal:
\* the call returns +max_penalty * max_num_cards_on_hand whatever the target's
\* card is, an absent card included.
C2_MoonBonusWhateverCard ==
    (Called /\ MoonFires /\ ~prev_was_illegals[Target])
        => reward.value = <<max_penalty * max_num_cards_on_hand, 1>>

\* C2 amended: trick closed, target has shot the moon, was not illegal and has
\* a previous card: the call returns +max_penalty * max_num_cards_on_hand
\* whatever that card and the trick fields are.
C2_MoonBonus ==
    (Called /\ MoonFires /\ ~prev_was_illegals[Target] /\ TargetCard # NoCard)
        => reward.value = <<max_penalty * max_num_cards_on_hand, 1>>

\* C2 witness: the bonus is paid although the target won and led a trick
C2_Witness ==
    /\ Called
    /\ MoonFires
    /\ ~prev_was_illegals[Target]
    /\ IsPenaltyCard(TargetCard)
    /\ prev_trick_penalty = 13
    /\ prev_trick_winner_index = Target
    /\ prev_leading_player_index = Target
    /\ reward.value = <<max_penalty * max_num_cards_on_hand, 1>>

\* C3: a call for a target with no previous card (and no illegal move) returns
\* exactly 0, whatever the other arguments, has_shot_the_moon and the trick
\* fields are.
C3_NoCardIsZero ==
    (Called /\ TargetCard = NoCard /\ ~prev_was_illegals[Target])
        => reward.value = <<0, 1>>

\* C3 witness: 0 although the trick closed, the target has shot the moon and
\* led and won a trick
C3_Witness ==
    /\ Called
    /\ TargetCard = NoCard
    /\ ~prev_was_illegals[Target]
    /\ MoonFires
    /\ prev_trick_penalty = 5
    /\ prev_trick_winner_index = Target
    /\ prev_leading_player_index = Target
    /\ reward.value = <<0, 1>>

\* C4: on the card/trick path with prev_trick_penalty = T defined and card
\* penalty c, the call returns -T - 2*max(c, 0.5) if the target won and led,
\* -T - max(c, 0.5) if it won and did not lead, T + 2*max(c, 0.5) if it led and
\* did not win, T + max(c, 0.5) otherwise; a number is always returned; the
\* spade queen with T = 5, won and led, gives -31.
C4_TrickTable ==
    (DefaultPath /\ prev_trick_penalty # NoPenalty)
        => LET T == prev_trick_penalty
               m == FloorHalves(Penalty(TargetCard))
               won == prev_trick_winner_index = Target
               led == prev_leading_player_index = Target
           IN  /\ reward.value # NoValue
               /\ (won /\ led) => reward.value = Frac(-(2 * T) - 2 * m, 2)
               /\ (won /\ ~led) => reward.value = Frac(-(2 * T) - m, 2)
               /\ (~won /\ led) => reward.value = Frac(2 * T + 2 * m, 2)
               /\ (~won /\ ~led) => reward.value = Frac(2 * T + m, 2)
               /\ (won /\ led /\ T = 5 /\ IsPenaltyCard(TargetCard))
                      => reward.value = <<-31, 1>>

\* C4 witness: the spade queen, played by a target who led and won a trick of
\* penalty 5
C4_Witness ==
    /\ DefaultPath
    /\ IsPenaltyCard(TargetCard)
    /\ prev_trick_penalty = 5
    /\ prev_trick_winner_index = Target
    /\ prev_leading_player_index = Target
    /\ reward.value = <<-31, 1>>

\* C5: on the card/trick path with prev_trick_penalty undefined the call
\* returns cardValue / 13: penalty/13 for the spade queen,
\* penalty * 0.5 * (rank/13)^2 * 13 / 13 for a heart and 0.25 * (rank/13)^2 * 13 / 13
\* for any other card; and so it does with any card of the deck in the place of
\* the target's card.
C5_NoTrickFallback ==
    (DefaultPath /\ prev_trick_penalty = NoPenalty)
        => /\ reward.value = ExpectedNoTrick(TargetCard)
           /\ \A c \in Deck :
                 compute_reward_on([prev_played_cards EXCEPT ![Target] = c],
                                   prev_was_illegals, Target, Target,
                                   reward.trick_is_over)
                     = ExpectedNoTrick(c)

\* C5 witness: a heart, before any trick has closed
C5_Witness ==
    /\ DefaultPath
    /\ prev_trick_penalty = NoPenalty
    /\ prev_trick_winner_index = NoPlayer
    /\ prev_leading_player_index = NoPlayer
    /\ IsHeart(TargetCard)
    /\ reward.value = <<72, 169>>

\* C6 as stated: for the 7 of clubs on the card/trick path with no trick ever
\* closed, cardValue is 0.907 and the call returns 0.0698, to three
\* significant digits.
C6_SevenOfClubsAsStated ==
    (DefaultPath /\ prev_trick_penalty = NoPenalty /\ TargetCard = Card("club", 7))
        => /\ Round3(card_value(TargetCard)) = <<907, 3>>
           /\ Round3(reward.value) = <<698, 4>>

\* C6 amended: for the 7 of clubs on the card/trick path with no trick ever
\* closed, cardValue = 0.25 * (7/13)^2 * 13 is 0.942 and the call returns
\* 0.0725, to three significant digits.
C6_SevenOfClubs ==
    (DefaultPath /\ prev_trick_penalty = NoPenalty /\ TargetCard = Card("club", 7))
        => /\ Round3(card_value(TargetCard)) = <<942, 3>>
           /\ Round3(reward.value) = <<725, 4>>

\* C6 witness: the 7 of clubs, rewarded before any trick has closed
C6_Witness ==
    /\ DefaultPath
    /\ prev_trick_penalty = NoPenalty
    /\ prev_trick_winner_index = NoPlayer
    /\ prev_leading_player_index = NoPlayer
    /\ TargetCard = Card("club", 7)
    /\ reward.value = <<49, 676>>

\* C7: what a call returns does not depend on prev_active_player_index, and of
\* prev_played_cards and prev_was_illegals only the target's entries count:
\* the call made returns what it returns for every acting player and with any
\* card and any illegal flag in another player's entries.
C7_OnlyTargetCounts ==
    Called =>
        /\ \A a \in Players :
              compute_reward(Target, a, reward.trick_is_over) = reward.value
        /\ \A a \in Players, q \in Players \ {Target},
              c \in SampleCards \cup {NoCard}, b \in BOOLEAN :
              compute_reward_on([prev_played_cards EXCEPT ![q] = c],
                                [prev_was_illegals EXCEPT ![q] = b],
                                Target, a, reward.trick_is_over)
                  = reward.value

\* C7 witness: the target's 7 of clubs is rewarded while the other player
\* holds the spade queen and an illegal move
C7_Witness ==
    /\ Called
    /\ TargetCard = Card("club", 7)
    /\ ~prev_was_illegals[Target]
    /\ \E q \in Players \ {Target} :
          /\ IsPenaltyCard(prev_played_cards[q])
          /\ prev_was_illegals[q]
          /\ shot_the_moon[q]
          /\ prev_trick_winner_index = q
    /\ prev_trick_penalty = 5
    /\ reward.value = <<11, 2>>

\* the kind of a card for card_value
Kind(c) == IF IsPenaltyCard(c) THEN "penalty" ELSE IF IsHeart(c) THEN "heart" ELSE "other"

\* C8: cardValue does not decrease with the rank among the hearts and among
\* the cards that are neither hearts nor the penalty card, and the spade queen
\* is worth strictly more than such a card of its rank.  Stated of the two
\* cards the two players have played.
C8_CardValueMonotone ==
    \A p \in Players, q \in Players :
        LET c == prev_played_cards[p]
            d == prev_played_cards[q]
        IN  (c # NoCard /\ d # NoCard)
               => /\ (Kind(c) = Kind(d) /\ c.rank <= d.rank)
                        => RLe(card_value(c), card_value(d))
                  /\ (Kind(c) = "penalty" /\ Kind(d) = "other" /\ d.rank = c.rank)
                        => RLt(card_value(d), card_value(c))

\* C8 witness: the spade queen and the queen of diamonds have been played and
\* one of the two players has been rewarded
C8_Witness ==
    /\ Called
    /\ IsPenaltyCard(prev_played_cards[0])
    /\ prev_played_cards[1] = Card("diamond", 12)

\* the invariants of the snapshot that C9 names
SnapshotValid ==
    /\ max_num_cards_on_hand >= 1
    /\ \A p \in Players :
          prev_played_cards[p] # NoCard
             => /\ prev_played_cards[p].rank \in 2 .. 14
                /\ Penalty(prev_played_cards[p]) >= 0
                /\ Penalty(prev_played_cards[p]) <= max_penalty
    /\ prev_trick_penalty # NoPenalty
          => (prev_trick_penalty >= 0 /\ prev_trick_penalty <= max_penalty)

\* x is no further from 0 than the illegal-move penalty
WithinExtreme(x) ==
    /\ x # NoValue
    /\ RLe(RAbs(x), <<max_penalty * max_num_cards_on_hand, 1>>)

\* x is strictly better than the illegal-move penalty
AboveIllegal(x) ==
    /\ x # NoValue
    /\ RLt(<<-(max_penalty * max_num_cards_on_hand), 1>>, x)

\* C9 as stated: on a valid snapshot every call for a target that was not
\* illegal returns more than -max_penalty * max_num_cards_on_hand, and no call
\* returns a value of larger magnitude than that.
C9_IllegalIsWorstAsStated ==
    (Called /\ SnapshotValid)
        => /\ WithinExtreme(reward.value)
           /\ ~prev_was_illegals[Target] => AboveIllegal(reward.value)

\* C9 amended: the same, for max_num_cards_on_hand >= 4 and max_penalty >= 1;
\* the reward is then also strictly more than what the same call returns once
\* the target's move is illegal.
C9_IllegalIsWorst ==
    (Called /\ SnapshotValid /\ max_num_cards_on_hand >= 4 /\ max_penalty >= 1)
        => /\ WithinExtreme(reward.value)
           /\ ~prev_was_illegals[Target]
                 => /\ AboveIllegal(reward.value)
                    /\ RLt(compute_reward_on(prev_played_cards,
                                             [prev_was_illegals EXCEPT ![Target] = TRUE],
                                             Target, Target, reward.trick_is_over),
                           reward.value)

\* C9 witness: the lowest reward of a legal move: the spade queen, led and won
\* in a trick whose penalty is max_penalty, with four cards on hand
C9_Witness ==
    /\ DefaultPath
    /\ SnapshotValid
    /\ max_num_cards_on_hand = 4
    /\ max_penalty = 13
    /\ IsPenaltyCard(TargetCard)
    /\ prev_trick_penalty = 13
    /\ prev_trick_winner_index = Target
    /\ prev_leading_player_index = Target
    /\ reward.value = <<-39, 1>>

\* the snapshot names a winner or a leader of a trick but no trick penalty
TrickFieldsTorn ==
    /\ prev_trick_penalty = NoPenalty
    /\ (prev_trick_winner_index # NoPlayer \/ prev_leading_player_index # NoPlayer)

\* C10 as stated: on the card/trick path of a snapshot that names a trick
\* winner or leader without a trick penalty, the call fails loudly instead of
\* returning a number.
C10_TornSnapshotFails ==
    (DefaultPath /\ TrickFieldsTorn) => reward.value = Raised

\* C10 amended: on such a snapshot the call does not fail; it ignores the
\* winner and the leader and returns cardValue / 13, as when no trick has closed.
C10_TornSnapshotFallsBack ==
    (DefaultPath /\ TrickFieldsTorn)
        => /\ reward.value # Raised
           /\ reward.value = ExpectedNoTrick(TargetCard)

\* C10 witness: the target is named winner and leader of a trick without
\* penalty and is paid the fallback for the spade queen
C10_Witness ==
    /\ DefaultPath
    /\ prev_trick_penalty = NoPenalty
    /\ prev_trick_winner_index = Target
    /\ prev_leading_player_index = Target
    /\ IsPenaltyCard(TargetCard)
    /\ reward.value = <<1, 1>>

====
